---- MODULE Spec2Model ----
(***************************************************************************)
(* A model of the HTTP server of arnsa/http-server-rust: the request       *)
(* parser (server/src/request/builder.rs), the URL model                   *)
(* (server/src/url/parser.rs), the response model                          *)
(* (server/src/response/builder.rs), the router (src/router/handler.rs),   *)
(* the handlers (app/src/router/handlers.rs) and the connection handler    *)
(* (app/src/utils/tcp_connection_handler.rs).                              *)
(*                                                                         *)
(* Rust Strings are TLA+ strings (TLC evaluates Len, \o and SubSeq on      *)
(* them); Option<T> is a sequence of length 0 (None) or 1 (Some(x));       *)
(* HashMap<String, String> is a function whose domain is a set of strings. *)
(***************************************************************************)
EXTENDS Integers, Sequences, FiniteSets, TLC

VARIABLES
    pc,        \* position of the connection handler in handle_tcp_connection
    raw,       \* the bytes the single read of the connection returned
    parsed,    \* Result<Request>: [ok |-> TRUE, ...fields] or [ok |-> FALSE]
    outcome,   \* what router::handle_route did for this connection
    socket,    \* the write_all calls made on the stream, in order
    files,     \* the serving directory: file name -> contents
    served,    \* number of connections handled so far
    probe,     \* inputs and result of the pure functions exercised alone
    pool       \* the worker pool of main: its queue, its workers, the jobs run

vars == <<pc, raw, parsed, outcome, socket, files, served, probe, pool>>

----------------------------------------------------------------------------
(* Option<T> *)

None == <<>>
Some(x) == <<x>>
IsSome(o) == o # <<>>
Unwrap(o) == o[1]

----------------------------------------------------------------------------
(* str primitives of the Rust standard library, as the code uses them *)

CRLF == "\r\n"

CharAt(s, i) == SubSeq(s, i, i)

Drop(s, n) == SubSeq(s, n + 1, Len(s))

Take(s, n) == SubSeq(s, 1, n)

StartsWith(s, p) == Len(p) <= Len(s) /\ Take(s, Len(p)) = p

\* str::find: index (1-based) of the first occurrence of pat in s, 0 if none
IndexOf(s, pat) ==
    LET hits == {i \in 1..(Len(s) - Len(pat) + 1) : SubSeq(s, i, i + Len(pat) - 1) = pat}
    IN IF hits = {} THEN 0 ELSE CHOOSE i \in hits : \A j \in hits : i <= j

\* str::contains
Contains(s, pat) == IndexOf(s, pat) # 0

\* str::split(sep): every piece, empty ones included; "" gives <<"">>
RECURSIVE Split(_, _)
Split(s, sep) ==
    LET i == IndexOf(s, sep)
    IN IF i = 0 THEN <<s>>
       ELSE <<Take(s, i - 1)>> \o Split(Drop(s, i + Len(sep) - 1), sep)

\* str::splitn(2, sep)
Splitn2(s, sep) ==
    LET i == IndexOf(s, sep)
    IN IF i = 0 THEN <<s>> ELSE <<Take(s, i - 1), Drop(s, i + Len(sep) - 1)>>

\* str::replace(pat, to): every non-overlapping occurrence, left to right
RECURSIVE Replace(_, _, _)
Replace(s, pat, to) ==
    LET i == IndexOf(s, pat)
    IN IF i = 0 THEN s
       ELSE Take(s, i - 1) \o to \o Replace(Drop(s, i + Len(pat) - 1), pat, to)

Whitespace == {" ", "\t", "\n", "\r"}

RECURSIVE TrimStart(_)
TrimStart(s) ==
    IF Len(s) > 0 /\ CharAt(s, 1) \in Whitespace THEN TrimStart(Drop(s, 1)) ELSE s

RECURSIVE TrimEnd(_)
TrimEnd(s) ==
    IF Len(s) > 0 /\ CharAt(s, Len(s)) \in Whitespace
    THEN TrimEnd(Take(s, Len(s) - 1)) ELSE s

\* str::trim: leading and trailing whitespace removed
Trim(s) == TrimEnd(TrimStart(s))

Digits == "0123456789"

DigitValue(c) == IndexOf(Digits, c) - 1

IsDigit(c) == Len(c) = 1 /\ Contains(Digits, c)

RECURSIVE DigitsValue(_)
DigitsValue(s) ==
    IF Len(s) = 0 THEN 0
    ELSE 10 * DigitsValue(Take(s, Len(s) - 1)) + DigitValue(CharAt(s, Len(s)))

\* str::parse::<usize>: an optional '+' and at least one decimal digit
ParseUsize(s) ==
    LET d == IF StartsWith(s, "+") THEN Drop(s, 1) ELSE s
    IN IF Len(d) > 0 /\ \A i \in 1..Len(d) : IsDigit(CharAt(d, i))
       THEN Some(DigitsValue(d)) ELSE None

\* Display of an unsigned integer
RECURSIVE ToDec(_)
ToDec(n) ==
    IF n < 10 THEN CharAt(Digits, n + 1)
    ELSE ToDec(n \div 10) \o CharAt(Digits, (n % 10) + 1)

\* Iterator::nth on a collected sequence (0-based)
Nth(seq, n) == IF n + 1 <= Len(seq) THEN Some(seq[n + 1]) ELSE None

\* Iterator::filter(|s| !s.is_empty())
RECURSIVE NonEmpty(_)
NonEmpty(seq) ==
    IF seq = <<>> THEN <<>>
    ELSE IF Head(seq) = "" THEN NonEmpty(Tail(seq))
         ELSE <<Head(seq)>> \o NonEmpty(Tail(seq))

\* a slip in the scan: the last matching line is taken (rfind)
RECURSIVE FindLine_LastMatch(_, _)
FindLine_LastMatch(lines, pat) ==
    IF lines = <<>> THEN None
    ELSE IF Contains(lines[Len(lines)], pat) THEN Some(lines[Len(lines)])
         ELSE FindLine_LastMatch(SubSeq(lines, 1, Len(lines) - 1), pat)

\* Iterator::find on the request lines
RECURSIVE FindLine(_, _)
FindLine(lines, pat) ==
    IF lines = <<>> THEN None
    ELSE IF Contains(Head(lines), pat) THEN Some(Head(lines))
         ELSE FindLine(Tail(lines), pat)

EmptyMap == [k \in {} |-> ""]

\* HashMap::insert
Insert(map, k, v) == [x \in DOMAIN map \cup {k} |-> IF x = k THEN v ELSE map[x]]

----------------------------------------------------------------------------
(* server/src/http: methods, status codes, headers *)

\* a slip in from_str: the method names are matched in either case
HttpMethod_from_str_EitherCase(s) ==
    CASE s \in {"GET", "get"} -> Some("GET")
      [] s \in {"POST", "post"} -> Some("POST")
      [] s \in {"PUT", "put"} -> Some("PUT")
      [] s \in {"PATCH", "patch"} -> Some("PATCH")
      [] s \in {"DELETE", "delete"} -> Some("DELETE")
      [] OTHER -> None

\* HttpMethod::from_str(s).ok()
HttpMethod_from_str(s) ==
    IF s \in {"GET", "POST", "PUT", "PATCH", "DELETE"} THEN Some(s) ELSE None

HttpCodes ==
    <<"Ok", "Created", "Accepted", "NoContent", "MovedPermanently", "Found",
      "NotModified", "BadRequest", "Unauthorized", "Forbidden", "NotFound",
      "MethodNotAllowed", "InternalServerError", "NotImplemented", "BadGateway",
      "ServiceUnavailable">>

to_u16(code) ==
    CASE code = "Ok" -> 200
      [] code = "Created" -> 201
      [] code = "Accepted" -> 202
      [] code = "NoContent" -> 204
      [] code = "MovedPermanently" -> 301
      [] code = "Found" -> 302
      [] code = "NotModified" -> 304
      [] code = "BadRequest" -> 400
      [] code = "Unauthorized" -> 401
      [] code = "Forbidden" -> 403
      [] code = "NotFound" -> 404
      [] code = "MethodNotAllowed" -> 405
      [] code = "InternalServerError" -> 500
      [] code = "NotImplemented" -> 501
      [] code = "BadGateway" -> 502
      [] code = "ServiceUnavailable" -> 503

\* impl Display for HttpCode
HttpCode_fmt(code) ==
    CASE code = "Ok" -> "OK"
      [] code = "Created" -> "Created"
      [] code = "Accepted" -> "Accepted"
      [] code = "NoContent" -> "No Content"
      [] code = "MovedPermanently" -> "Moved Permanently"
      [] code = "Found" -> "Found"
      [] code = "NotModified" -> "Not Modified"
      [] code = "BadRequest" -> "Bad Request"
      [] code = "Unauthorized" -> "Unauthorized"
      [] code = "Forbidden" -> "Forbidden"
      [] code = "NotFound" -> "Not Found"
      [] code = "MethodNotAllowed" -> "Method Not Allowed"
      [] code = "InternalServerError" -> "Internal Server Error"
      [] code = "NotImplemented" -> "Not Implemented"
      [] code = "BadGateway" -> "Bad Gateway"
      [] code = "ServiceUnavailable" -> "Service Unavailable"

\* the variants of enum HttpHeader
ContentType(v) == [tag |-> "ContentType", text |-> v, len |-> 0]
ContentLength(n) == [tag |-> "ContentLength", text |-> "", len |-> n]
ContentEncoding(v) == [tag |-> "ContentEncoding", text |-> v, len |-> 0]

\* impl Display for HttpHeader
HttpHeader_fmt(h) ==
    CASE h.tag = "ContentType" -> "Content-Type: " \o h.text
      [] h.tag = "ContentLength" -> "Content-Length: " \o ToDec(h.len)
      [] h.tag = "ContentEncoding" -> "Content-Encoding: " \o h.text

----------------------------------------------------------------------------
(* server/src/response/builder.rs *)

Response(status_code, status_text, http_version, headers, body) ==
    [status_code |-> status_code, status_text |-> status_text,
     http_version |-> http_version, headers |-> headers, body |-> body]

\* h.iter().map(|h| format!("\r\n{}", h.to_string())).collect::<String>()
RECURSIVE CollectHeaders(_)
CollectHeaders(h) ==
    IF h = <<>> THEN ""
    ELSE CRLF \o HttpHeader_fmt(Head(h)) \o CollectHeaders(Tail(h))

\* a slip in fmt: the blank line is only written in front of a body
Response_fmt_NoBlankLine(self) ==
    LET headers == IF IsSome(self.headers) THEN CollectHeaders(Unwrap(self.headers))
                   ELSE ""
        body == IF IsSome(self.body) THEN CRLF \o CRLF \o Unwrap(self.body)
                ELSE CRLF
    IN self.http_version \o " " \o ToDec(to_u16(self.status_code)) \o " "
         \o self.status_text \o headers \o body

\* impl Display for Response
Response_fmt(self) ==
    LET headers == IF IsSome(self.headers) THEN CollectHeaders(Unwrap(self.headers))
                   ELSE ""
        body == IF IsSome(self.body) THEN CRLF \o CRLF \o Unwrap(self.body)
                ELSE CRLF \o CRLF
    IN self.http_version \o " " \o ToDec(to_u16(self.status_code)) \o " "
         \o self.status_text \o headers \o body

----------------------------------------------------------------------------
(* server/src/url/parser.rs *)

\* the filter_map closure of parse_query: Some(<<key, value>>) or None
QueryPair(s) ==
    LET pair == Splitn2(s, "=")
    IN IF Len(pair) < 2 THEN None
       ELSE IF Len(pair[1]) > 0 THEN Some(<<pair[1], pair[2]>>) ELSE None

\* a slip in the collection: a key already present keeps its first value
RECURSIVE CollectPairs_FirstWins(_, _)
CollectPairs_FirstWins(pieces, map) ==
    IF pieces = <<>> THEN map
    ELSE LET kv == QueryPair(Head(pieces))
         IN CollectPairs_FirstWins(Tail(pieces),
                IF IsSome(kv) /\ Unwrap(kv)[1] \notin DOMAIN map
                THEN Insert(map, Unwrap(kv)[1], Unwrap(kv)[2])
                ELSE map)

\* collect::<HashMap<_, _>>(): pairs inserted in order, a later key overwrites
RECURSIVE CollectPairs(_, _)
CollectPairs(pieces, map) ==
    IF pieces = <<>> THEN map
    ELSE LET kv == QueryPair(Head(pieces))
         IN CollectPairs(Tail(pieces),
                         IF IsSome(kv) THEN Insert(map, Unwrap(kv)[1], Unwrap(kv)[2])
                         ELSE map)

parse_query(query) == CollectPairs(Split(query, "&"), EmptyMap)

Url_new(url) ==
    LET parts == Splitn2(url, "?")
    IN [path |-> parts[1],
        query |-> IF Len(parts) > 1 THEN Some(parse_query(parts[2])) ELSE None]

\* a slip in the loop: a name already bound keeps its first value
RECURSIVE MatchSegments_FirstWins(_, _, _)
MatchSegments_FirstWins(url_segments, pattern_segments, params) ==
    IF url_segments = <<>> \/ pattern_segments = <<>> THEN Some(params)
    ELSE LET url_seg == Head(url_segments)
             pattern_seg == Head(pattern_segments)
         IN IF StartsWith(pattern_seg, ":")
            THEN MatchSegments_FirstWins(
                     Tail(url_segments), Tail(pattern_segments),
                     IF Drop(pattern_seg, 1) \in DOMAIN params THEN params
                     ELSE Insert(params, Drop(pattern_seg, 1), url_seg))
            ELSE IF url_seg # pattern_seg THEN None
                 ELSE MatchSegments_FirstWins(Tail(url_segments),
                                              Tail(pattern_segments), params)

\* the for loop of match_path over url_segments.iter().zip(pattern_segments.iter())
RECURSIVE MatchSegments(_, _, _)
MatchSegments(url_segments, pattern_segments, params) ==
    IF url_segments = <<>> \/ pattern_segments = <<>> THEN Some(params)
    ELSE LET url_seg == Head(url_segments)
             pattern_seg == Head(pattern_segments)
         IN IF StartsWith(pattern_seg, ":")
            THEN MatchSegments(Tail(url_segments), Tail(pattern_segments),
                               Insert(params, Drop(pattern_seg, 1), url_seg))
            ELSE IF url_seg # pattern_seg THEN None
                 ELSE MatchSegments(Tail(url_segments), Tail(pattern_segments), params)

\* a slip in match_path: the segment counts are not compared, so zip stops at
\* the shorter list
match_path_NoCountCheck(self, pattern) ==
    MatchSegments(NonEmpty(Split(self.path, "/")), NonEmpty(Split(pattern, "/")),
                  EmptyMap)

\* a slip in match_path: the empty pieces of the split are kept
match_path_KeepsEmptySegments(self, pattern) ==
    LET url_segments == Split(self.path, "/")
        pattern_segments == Split(pattern, "/")
    IN IF Len(url_segments) # Len(pattern_segments) THEN None
       ELSE MatchSegments(url_segments, pattern_segments, EmptyMap)

match_path(self, pattern) ==
    LET url_segments == NonEmpty(Split(self.path, "/"))
        pattern_segments == NonEmpty(Split(pattern, "/"))
    IN IF Len(url_segments) # Len(pattern_segments) THEN None
       ELSE MatchSegments(url_segments, pattern_segments, EmptyMap)

----------------------------------------------------------------------------
(* server/src/request/builder.rs *)

BufferSize == 1024

\* a slip in get_request: the trimmed text is split without the emptiness test
get_request_NoEmptyCheck(bytes) == Some(Split(Trim(bytes), CRLF))

\* Result<Vec<String>>: the lines, or <<>> for Err("Error: request is empty").
\* The bytes are ASCII, on which from_utf8_lossy changes nothing.
get_request(bytes) ==
    LET request_str == Trim(bytes)
    IN IF request_str = "" THEN None ELSE Some(Split(request_str, CRLF))

get_user_agent_header(lines) ==
    LET found == FindLine(lines, "User-Agent:")
    IN IF IsSome(found) THEN Some(Replace(Unwrap(found), "User-Agent: ", "")) ELSE None

get_accept_encoding(lines) ==
    LET found == FindLine(lines, "Accept-Encoding")
    IN IF IsSome(found) THEN Nth(Split(Unwrap(found), "Accept-Encoding: "), 1) ELSE None

get_content_length(lines) ==
    LET found == FindLine(lines, "Content-Length")
        value == IF IsSome(found) THEN Nth(Split(Unwrap(found), "Content-Length: "), 1)
                 ELSE None
    IN IF IsSome(value) THEN ParseUsize(Unwrap(value)) ELSE None

get_method(request_line) ==
    LET token == Nth(Split(request_line, " "), 0)
    IN IF IsSome(token) THEN HttpMethod_from_str(Unwrap(token)) ELSE None

get_url(request_line) == Nth(Split(request_line, " "), 1)

get_http_version(request_line) ==
    LET token == Nth(Split(request_line, " "), 3)
    IN IF IsSome(token) THEN Unwrap(token) ELSE "HTTP/1.1"

NoRequest == [ok |-> FALSE]

\* stream.read(&mut buffer) with buffer = [0; 1024]: at most 1024 bytes
ReadBuffer(bytes) == IF Len(bytes) > BufferSize THEN Take(bytes, BufferSize) ELSE bytes

\* Request::new on a stream holding `bytes`, whose read succeeds (read_ok) or fails
Request_new(bytes, read_ok) ==
    LET lines == get_request(ReadBuffer(bytes))
    IN IF ~read_ok \/ ~IsSome(lines) THEN NoRequest
       ELSE LET req == Unwrap(lines)
                request_line == req[1]
                url_str == get_url(request_line)
            IN [ok |-> TRUE,
                request |-> req,
                user_agent |-> get_user_agent_header(req),
                accept_encoding |-> get_accept_encoding(req),
                content_length |-> get_content_length(req),
                method |-> get_method(request_line),
                url |-> IF IsSome(url_str) THEN Some(Url_new(Unwrap(url_str))) ELSE None,
                http_version |-> get_http_version(request_line)]

----------------------------------------------------------------------------
(* app/src/router/handlers.rs *)

\* RouteReturn = Result<(String, Option<Vec<u8>>), anyhow::Error>, extended with
\* the file store the call leaves behind; kind "panic" is a call that unwinds
RouteOk(head, data, fs) == [kind |-> "ok", head |-> head, data |-> data, files |-> fs]
RouteErr(fs) == [kind |-> "err", head |-> "", data |-> None, files |-> fs]
RoutePanic(fs) == [kind |-> "panic", head |-> "", data |-> None, files |-> fs]

\* the serving directory of parse_directory_from_args when no argument is given
Directory == "./"

\* what a file-system call does: "ok"; "err", nothing touched; "truncated", a
\* write whose File::create succeeded and whose write_all failed
IoOutcomes == {"ok", "err", "truncated"}

\* GzEncoder::new(vec![], Compression::default()) .. finish(): an opaque
\* injective encoding
Gzip(s) == "<gzip " \o s \o ">"

\* Response { status_code: code, status_text: code.to_string(), .. }.to_string()
ResponseLine(code, request, headers, body) ==
    Response_fmt(Response(code, HttpCode_fmt(code), request.http_version, headers, body))

handle_get_root(request, params, fs, io) ==
    RouteOk(ResponseLine("Ok", request, None, None), None, fs)

\* a slip in the handler: a request without a stored User-Agent is an error
handle_get_user_agent_RequireHeader(request, params, fs, io) ==
    IF ~IsSome(request.user_agent) THEN RouteErr(fs)
    ELSE LET headers == Some(<<ContentType("text/plain"),
                               ContentLength(Len(Unwrap(request.user_agent)))>>)
         IN RouteOk(ResponseLine("Ok", request, headers, request.user_agent), None, fs)

handle_get_user_agent(request, params, fs, io) ==
    LET user_agent == request.user_agent
        length == IF IsSome(user_agent) THEN Len(Unwrap(user_agent)) ELSE 0
        headers == Some(<<ContentType("text/plain"), ContentLength(length)>>)
    IN RouteOk(ResponseLine("Ok", request, headers, user_agent), None, fs)

\* a slip in the gzip arm: Content-Length counts the text, not the compressed bytes
handle_get_echo_LengthOfText(request, params, fs, io) ==
    IF "str" \notin DOMAIN params THEN RouteErr(fs)
    ELSE LET echo_str == params["str"]
         IN IF IsSome(request.accept_encoding)
                 /\ Contains(Unwrap(request.accept_encoding), "gzip")
            THEN LET compressed_data == Gzip(echo_str)
                     headers == Some(<<ContentType("text/plain"),
                                       ContentEncoding("gzip"),
                                       ContentLength(Len(echo_str))>>)
                 IN RouteOk(ResponseLine("Ok", request, headers, None),
                            Some(compressed_data), fs)
            ELSE LET headers == Some(<<ContentType("text/plain"),
                                       ContentLength(Len(echo_str))>>)
                 IN RouteOk(ResponseLine("Ok", request, headers, Some(echo_str)), None, fs)

\* a slip in the match: any Accept-Encoding value selects the gzip arm
handle_get_echo_AnyEncoding(request, params, fs, io) ==
    IF "str" \notin DOMAIN params THEN RouteErr(fs)
    ELSE LET echo_str == params["str"]
         IN IF IsSome(request.accept_encoding)
            THEN LET compressed_data == Gzip(echo_str)
                     headers == Some(<<ContentType("text/plain"),
                                       ContentEncoding("gzip"),
                                       ContentLength(Len(compressed_data))>>)
                 IN RouteOk(ResponseLine("Ok", request, headers, None),
                            Some(compressed_data), fs)
            ELSE LET headers == Some(<<ContentType("text/plain"),
                                       ContentLength(Len(echo_str))>>)
                 IN RouteOk(ResponseLine("Ok", request, headers, Some(echo_str)), None, fs)

handle_get_echo(request, params, fs, io) ==
    IF "str" \notin DOMAIN params THEN RouteErr(fs)
    ELSE LET echo_str == params["str"]
         IN IF IsSome(request.accept_encoding)
                 /\ Contains(Unwrap(request.accept_encoding), "gzip")
            THEN LET compressed_data == Gzip(echo_str)
                     headers == Some(<<ContentType("text/plain"),
                                       ContentEncoding("gzip"),
                                       ContentLength(Len(compressed_data))>>)
                 IN RouteOk(ResponseLine("Ok", request, headers, None),
                            Some(compressed_data), fs)
            ELSE LET headers == Some(<<ContentType("text/plain"),
                                       ContentLength(Len(echo_str))>>)
                 IN RouteOk(ResponseLine("Ok", request, headers, Some(echo_str)), None, fs)

\* a slip in the handler: a failed read is propagated with ? instead of matched
handle_get_files_ReadErrorPropagates(request, params, fs, io) ==
    IF "file_name" \notin DOMAIN params THEN RouteErr(fs)
    ELSE LET path == Directory \o params["file_name"]
         IN IF io = "ok" /\ path \in DOMAIN fs
            THEN LET contents == fs[path]
                     headers == Some(<<ContentType("application/octet-stream"),
                                       ContentLength(Len(contents))>>)
                 IN RouteOk(ResponseLine("Ok", request, headers, Some(contents)), None, fs)
            ELSE RouteErr(fs)

\* a slip in the handler: the file is sent without a Content-Length header
handle_get_files_NoLengthHeader(request, params, fs, io) ==
    IF "file_name" \notin DOMAIN params THEN RouteErr(fs)
    ELSE LET path == Directory \o params["file_name"]
         IN IF io = "ok" /\ path \in DOMAIN fs
            THEN LET contents == fs[path]
                     headers == Some(<<ContentType("application/octet-stream")>>)
                 IN RouteOk(ResponseLine("Ok", request, headers, Some(contents)), None, fs)
            ELSE RouteOk(ResponseLine("NotFound", request, None, None), None, fs)

handle_get_files(request, params, fs, io) ==
    IF "file_name" \notin DOMAIN params THEN RouteErr(fs)
    ELSE LET path == Directory \o params["file_name"]
         IN IF io = "ok" /\ path \in DOMAIN fs
            THEN LET contents == fs[path]
                     headers == Some(<<ContentType("application/octet-stream"),
                                       ContentLength(Len(contents))>>)
                 IN RouteOk(ResponseLine("Ok", request, headers, Some(contents)), None, fs)
            ELSE RouteOk(ResponseLine("NotFound", request, None, None), None, fs)

\* a slip in the handler: without Content-Length the whole last line is written
handle_post_files_WholeLineWithoutLength(request, params, fs, io) ==
    IF "file_name" \notin DOMAIN params THEN RouteErr(fs)
    ELSE LET path == Directory \o params["file_name"]
             last == request.request[Len(request.request)]
             cl == IF IsSome(request.content_length) THEN Unwrap(request.content_length)
                   ELSE Len(last)
         IN IF cl > Len(last) THEN RoutePanic(fs)
            ELSE IF io = "ok"
                 THEN RouteOk(ResponseLine("Created", request, None, None), None,
                              Insert(fs, path, Take(last, cl)))
                 ELSE RouteOk(ResponseLine("InternalServerError", request, None, None),
                              None,
                              IF io = "truncated" THEN Insert(fs, path, "") ELSE fs)

handle_post_files(request, params, fs, io) ==
    IF "file_name" \notin DOMAIN params THEN RouteErr(fs)
    ELSE LET path == Directory \o params["file_name"]
         IN IF IsSome(request.content_length)
            THEN LET cl == Unwrap(request.content_length)
                     last == request.request[Len(request.request)]
                 IN IF cl > Len(last) THEN RoutePanic(fs)
                    ELSE IF io = "ok"
                         THEN RouteOk(ResponseLine("Created", request, None, None), None,
                                      Insert(fs, path, Take(last, cl)))
                         ELSE RouteOk(ResponseLine("InternalServerError", request, None, None),
                                      None,
                                      IF io = "truncated" THEN Insert(fs, path, "")
                                      ELSE fs)
            ELSE RouteOk(ResponseLine("InternalServerError", request, None, None), None, fs)

----------------------------------------------------------------------------
(* src/router/models.rs and src/router/handler.rs *)

\* a slip in the patterns: the echo pattern takes any first segment
Paths_as_str_EchoAnyFirst(p) ==
    CASE p = "Root" -> "/"
      [] p = "UserAgent" -> "/user-agent"
      [] p = "Echo" -> "/:kind/:str"
      [] p = "Files" -> "/files/:file_name"

Paths_as_str(p) ==
    CASE p = "Root" -> "/"
      [] p = "UserAgent" -> "/user-agent"
      [] p = "Echo" -> "/echo/:str"
      [] p = "Files" -> "/files/:file_name"

Route(path, handler) == [path |-> path, handler |-> handler]

\* the Vec<Route> of the HttpMethod::GET arm
GetRoutes ==
    <<Route(Paths_as_str("Root"), "handle_get_root"),
      Route(Paths_as_str("UserAgent"), "handle_get_user_agent"),
      Route(Paths_as_str("Echo"), "handle_get_echo"),
      Route(Paths_as_str("Files"), "handle_get_files")>>

\* the Vec<Route> of the HttpMethod::POST arm
PostRoutes == <<Route(Paths_as_str("Files"), "handle_post_files")>>

\* (route.handler)(request, params)
Call(handler, request, params, fs, io) ==
    CASE handler = "handle_get_root" -> handle_get_root(request, params, fs, io)
      [] handler = "handle_get_user_agent" -> handle_get_user_agent(request, params, fs, io)
      [] handler = "handle_get_echo" -> handle_get_echo(request, params, fs, io)
      [] handler = "handle_get_files" -> handle_get_files(request, params, fs, io)
      [] handler = "handle_post_files" -> handle_post_files(request, params, fs, io)

\* what handle_route did: the RouteReturn, the handler it invoked and the
\* parameters it passed (None when it invoked none)
Routed(ret, handler, params) ==
    [kind |-> ret.kind, head |-> ret.head, data |-> ret.data, files |-> ret.files,
     handler |-> handler, params |-> params]

\* a slip in the loop: the handler is called with a fresh map, not the match's
RECURSIVE RouteLoop_FreshParams(_, _, _, _, _)
RouteLoop_FreshParams(routes, request, url, fs, io) ==
    IF routes = <<>> THEN None
    ELSE LET route == routes[1]
             params == match_path(url, route.path)
         IN IF IsSome(params)
            THEN Some(Routed(Call(route.handler, request, EmptyMap, fs, io),
                             Some(route.handler), Some(EmptyMap)))
            ELSE RouteLoop_FreshParams(Tail(routes), request, url, fs, io)

\* for route in routes { if let Some(params) = url.match_path(..) { return .. } }
RECURSIVE RouteLoop(_, _, _, _, _)
RouteLoop(routes, request, url, fs, io) ==
    IF routes = <<>> THEN None
    ELSE LET route == routes[1]
             params == match_path(url, route.path)
         IN IF IsSome(params)
            THEN Some(Routed(Call(route.handler, request, Unwrap(params), fs, io),
                             Some(route.handler), params))
            ELSE RouteLoop(Tail(routes), request, url, fs, io)

NotFoundReturn(request, fs) ==
    Routed(RouteOk(ResponseLine("NotFound", request, None, None), None, fs), None, None)

\* a for loop that matched no route falls out of the match to the final 404
Dispatch(routes, request, url, fs, io) ==
    LET found == RouteLoop(routes, request, url, fs, io)
    IN IF IsSome(found) THEN Unwrap(found) ELSE NotFoundReturn(request, fs)

\* a slip in the match: every method but GET shares the POST arm
MethodArms_OtherAsPost(method, request, url, fs, io) ==
    CASE method = "GET" -> Dispatch(GetRoutes, request, url, fs, io)
      [] OTHER -> Dispatch(PostRoutes, request, url, fs, io)

\* match &method { GET => .., POST => .., _ => .. }
MethodArms(method, request, url, fs, io) ==
    CASE method = "GET" -> Dispatch(GetRoutes, request, url, fs, io)
      [] method = "POST" -> Dispatch(PostRoutes, request, url, fs, io)
      [] OTHER -> NotFoundReturn(request, fs)

\* a slip in handle_route: a request without a method falls through to the 404
handle_route_NoMethodNotFound(request, fs, io) ==
    IF ~IsSome(request.method) THEN NotFoundReturn(request, fs)
    ELSE IF IsSome(request.url)
         THEN MethodArms(Unwrap(request.method), request, Unwrap(request.url), fs, io)
         ELSE NotFoundReturn(request, fs)

\* a slip in handle_route: a missing method defaults to POST instead of failing
handle_route_DefaultPost(request, fs, io) ==
    LET method == IF IsSome(request.method) THEN Unwrap(request.method) ELSE "POST"
    IN IF IsSome(request.url)
       THEN MethodArms(method, request, Unwrap(request.url), fs, io)
       ELSE NotFoundReturn(request, fs)

handle_route(request, fs, io) ==
    IF ~IsSome(request.method) THEN Routed(RouteErr(fs), None, None)
    ELSE IF IsSome(request.url)
         THEN MethodArms(Unwrap(request.method), request, Unwrap(request.url), fs, io)
         ELSE NotFoundReturn(request, fs)

----------------------------------------------------------------------------
(* The requests the clients send *)

MaxConns == 2

RECURSIVE JoinLines(_)
JoinLines(lines) ==
    IF lines = <<>> THEN "" ELSE lines[1] \o CRLF \o JoinLines(Tail(lines))

RawRequest(line, headers, body) == line \o CRLF \o JoinLines(headers) \o CRLF \o body

Methods == {"GET", "POST", "PUT", "PATCH", "DELETE", "FETCH", "get"}

Targets ==
    {"/", "/?q=1", "/user-agent", "/echo/abc", "/echo", "/echo/", "/echo/abc/d",
     "/files/f", "/files/g", "/files/", "/nope"}

Versions == {"", " HTTP/1.1", " HTTP/1.0", " HTTP/1.1 x"}

HeaderBlocks ==
    {<<>>, <<"Host: h">>, <<"User-Agent: ua">>, <<"User-Agent: a", "User-Agent: b">>,
     <<"Accept-Encoding: gzip">>, <<"Accept-Encoding: br">>,
     <<"Accept-Encoding: br", "Accept-Encoding: gzip">>,
     <<"Accept-Encoding: deflate, gzip", "User-Agent: ua">>,
     <<"Content-Length: 2">>, <<"Host: h", "Content-Length: x">>}

LengthHeaders ==
    {<<>>, <<"Content-Length: 0">>, <<"Content-Length: 2">>, <<"Content-Length: 5">>,
     <<"Content-Length: x">>}

Bodies == {"", "hi", "hi ", "hello", "a\r\nbc"}

EchoTargets == {"/echo/a", "/echo/abc?x=1", "/echo/Accept-Encoding", "//echo/gzip/"}

EchoHeaders ==
    {<<>>, <<"Accept-Encoding: gzip">>, <<"Accept-Encoding: gzip, br">>,
     <<"Accept-Encoding: identity">>, <<"X-Accept-Encoding: gzip">>,
     <<"Accept-Encoding: gzip", "Accept-Encoding: br">>}

\* header blocks that repeat a header name
RepeatedHeaders ==
    {<<"Content-Length: x", "Content-Length: 2">>,
     <<"Content-Length: 2", "Content-Length: 5">>,
     <<"Content-Length: -1", "User-Agent: a", "Accept-Encoding: gzip",
       "User-Agent: b", "Accept-Encoding: br">>}

\* paths made of the fixed segments of two different patterns
CrossTargets ==
    {"/echo/files", "/files/echo", "/files/user-agent", "/user-agent/echo", "/echo/user-agent"}

Malformed ==
    {"", "  ", "\r\n\r\n", "GET", "GET\r\n\r\n", "INVALID_REQUEST_LINE\r\nHost: h\r\n\r\n",
     "POST\r\nContent-Length: 2\r\n\r\nhi"}

Inputs ==
    {RawRequest(m \o " " \o t \o " HTTP/1.1", <<>>, "") : m \in Methods, t \in Targets}
    \cup {RawRequest(m \o " " \o t \o v, h, "") :
            m \in {"GET", "POST", "FETCH"}, t \in {"/", "/files/f", "/nope"},
            v \in Versions, h \in {<<>>, <<"Content-Length: 0">>}}
    \cup {RawRequest("GET " \o t \o " HTTP/1.1", h, b) :
            t \in {"/", "/user-agent", "/echo/abc", "/files/f"},
            h \in HeaderBlocks, b \in {"", "hi"}}
    \cup {RawRequest(m \o " " \o t \o " HTTP/1.1", h, b) :
            m \in {"POST", "PUT", "FETCH"}, t \in {"/files/f", "/files/g"},
            h \in LengthHeaders, b \in Bodies}
    \cup {RawRequest("GET " \o t \o " HTTP/1.1", h, "") :
            t \in EchoTargets, h \in EchoHeaders}
    \cup {RawRequest("POST /files/f HTTP/1.1", h, "hi") : h \in RepeatedHeaders}
    \cup {RawRequest("GET " \o t \o " HTTP/1.1", <<>>, "") : t \in CrossTargets}
    \cup Malformed

\* the serving directory when the server starts
InitialFiles == {EmptyMap, Insert(EmptyMap, Directory \o "f", "hello")}

----------------------------------------------------------------------------
(* app/src/main.rs and the worker pool it uses, server::thread_pool *)

\* let pool = ThreadPool::new(4);
NumWorkers == 4

\* ThreadPool::new(n): n idle workers and an empty queue. `submitted` counts
\* the jobs handed to execute, which are numbered in that order; ran[id] counts
\* the times job id has been run; a worker's `logged` counts the faults it
\* has caught and logged
ThreadPool_new(n) ==
    [queue |-> <<>>,
     workers |-> [w \in 1..n |-> [state |-> "idle", job |-> None, logged |-> 0]],
     submitted |-> 0,
     ran |-> <<>>]

\* an execute that hands the job over to a worker: it waits while all are busy
execute_blocks_WhenAllBusy(p) ==
    \A w \in DOMAIN p.workers : p.workers[w].state # "idle"

\* whether execute has to wait in pool state p: never, the queue is unbounded
execute_blocks(p) == FALSE

\* || { let _ = handle_tcp_connection(_stream); }: the Result is dropped, so
\* the closure returns unless the connection handler unwinds
JobClosure(ending) == IF ending = "panic" THEN "panicked" ELSE "returned"

\* a worker loop that does not catch: a job that unwinds ends the worker
AfterJob_PanicKills(result) == IF result = "panicked" THEN "dead" ELSE "idle"

\* the worker loop after a job: a fault of the job is caught and logged, and
\* the worker waits for the next job
AfterJob(result) == "idle"

----------------------------------------------------------------------------
(* app/src/utils/tcp_connection_handler.rs, one connection after another *)

NoOutcome ==
    [kind |-> "none", head |-> "", data |-> None, handler |-> None, params |-> None,
     io |-> "none"]

\* the handlers that reach the file system: fs::read_to_string, fs::write
FileHandlers == {"handle_get_files", "handle_post_files"}

\* what handle_route did, and what the file system did for the handler it
\* invoked ("none" for a handler that makes no file-system call)
OutcomeOf(r, io) ==
    [kind |-> r.kind, head |-> r.head, data |-> r.data,
     handler |-> r.handler, params |-> r.params,
     io |-> IF IsSome(r.handler) /\ Unwrap(r.handler) \in FileHandlers
            THEN io ELSE "none"]

NoProbe == [fn |-> "none"]

\* how handle_tcp_connection ended: Ok(()), Err(_) or unwinding
Ended == {"ok", "err", "panic"}

Init ==
    /\ pc = "idle"
    /\ raw = ""
    /\ parsed = NoRequest
    /\ outcome = NoOutcome
    /\ socket = <<>>
    /\ files \in InitialFiles
    /\ served = 0
    /\ probe = NoProbe
    /\ pool = ThreadPool_new(NumWorkers)

\* listener.incoming() yields a stream; its single read will return `bytes`
Accept ==
    /\ pc \in Ended \cup {"idle"}
    /\ served < MaxConns
    /\ \E bytes \in Inputs : raw' = bytes
    /\ pc' = "read"
    /\ parsed' = NoRequest
    /\ outcome' = NoOutcome
    /\ socket' = <<>>
    /\ served' = served + 1
    /\ UNCHANGED <<files, probe, pool>>

\* let request = Request::new(&mut stream).context(..)?;
Parse ==
    /\ pc = "read"
    /\ \E read_ok \in BOOLEAN :
         /\ parsed' = Request_new(raw, read_ok)
         /\ pc' = IF parsed'.ok THEN "route" ELSE "err"
    /\ UNCHANGED <<raw, outcome, socket, files, served, probe, pool>>

\* router::handle_route(&request)
RouteRequest ==
    /\ pc = "route"
    /\ \E io \in IoOutcomes :
         LET r == handle_route(parsed, files, io)
         IN /\ outcome' = OutcomeOf(r, io)
            /\ files' = r.files
            /\ pc' = IF r.kind = "panic" THEN "panic" ELSE "write_head"
    /\ UNCHANGED <<raw, parsed, socket, served, probe, pool>>

\* .unwrap_or((Response { status_code: InternalServerError, .. }.to_string(), None))
Unwrapped(request, r) ==
    IF r.kind = "ok" THEN <<r.head, r.data>>
    ELSE <<ResponseLine("InternalServerError", request, None, None), None>>

Written(what, bytes, ok) == [what |-> what, bytes |-> bytes, ok |-> ok]

\* a slip in the handler: the result of writing the head is dropped
WriteHead_ErrorIgnored ==
    /\ pc = "write_head"
    /\ \E ok \in BOOLEAN :
         LET response_line == Unwrapped(parsed, outcome)[1]
             data == Unwrapped(parsed, outcome)[2]
         IN /\ socket' = Append(socket, Written("head", response_line, ok))
            /\ pc' = IF IsSome(data) THEN "write_data" ELSE "ok"
    /\ UNCHANGED <<raw, parsed, outcome, files, served, probe, pool>>

\* stream.write_all(response_line.as_bytes()).context(..)?;
WriteHead ==
    /\ pc = "write_head"
    /\ \E ok \in BOOLEAN :
         LET response_line == Unwrapped(parsed, outcome)[1]
             data == Unwrapped(parsed, outcome)[2]
         IN /\ socket' = Append(socket, Written("head", response_line, ok))
            /\ pc' = IF ~ok THEN "err" ELSE IF IsSome(data) THEN "write_data" ELSE "ok"
    /\ UNCHANGED <<raw, parsed, outcome, files, served, probe, pool>>

\* if let Some(d) = data { stream.write_all(&d).context(..)?; }
WriteData ==
    /\ pc = "write_data"
    /\ \E ok \in BOOLEAN :
         LET data == Unwrapped(parsed, outcome)[2]
         IN /\ socket' = Append(socket, Written("data", Unwrap(data), ok))
            /\ pc' = IF ok THEN "ok" ELSE "err"
    /\ UNCHANGED <<raw, parsed, outcome, files, served, probe, pool>>

Next == Accept \/ Parse \/ RouteRequest \/ WriteHead \/ WriteData

Spec == Init /\ [][Next]_vars

----------------------------------------------------------------------------
(* Properties of the connection handler and the router, under Spec *)

\* handle_route has returned or unwound for the current connection
HasRouted == outcome.kind # "none"

MethodAbsent == parsed.ok /\ ~IsSome(parsed.method)

\* the head the connection handler hands to write_all
ResponseHead == Unwrapped(parsed, outcome)[1]

ResponseData == Unwrapped(parsed, outcome)[2]

HeadsWritten == {i \in 1..Len(socket) : socket[i].what = "head"}

\* a head of the given status with no header and no body, in the request's version
BareHead(status) == parsed.http_version \o " " \o status \o CRLF \o CRLF

\* C1 (as stated): a parsed request whose method is absent or unrecognized is
\* answered 404 Not Found, whatever its path, and handling it never unwinds.
C1_MethodAbsentAnswered404 ==
    MethodAbsent =>
        /\ pc # "panic"
        /\ pc \in {"ok", "err"} =>
             /\ Len(socket) = 1
             /\ socket[1].what = "head"
             /\ socket[1].bytes = BareHead("404 Not Found")

\* C1 (amended): a parsed request whose method is absent or unrecognized is
\* answered 500 Internal Server Error with no header, no body and no raw payload,
\* whatever its path, and handling it never unwinds.
C1_MethodAbsentAnswered500 ==
    MethodAbsent =>
        /\ pc # "panic"
        /\ pc \in {"ok", "err"} =>
             /\ Len(socket) = 1
             /\ socket[1].what = "head"
             /\ socket[1].bytes = BareHead("500 Internal Server Error")

C1_Witness ==
    /\ MethodAbsent
    /\ pc = "ok"
    /\ IsSome(parsed.url)
    /\ socket # <<>>

\* C2: on a request without a method the router step yields an error, invokes
\* no handler and leaves every file as it was, whatever the URL is.
C2_NoMethodIsErrorBeforeDispatch ==
    [][(pc = "route" /\ MethodAbsent) =>
           /\ outcome'.kind = "err"
           /\ outcome'.handler = None
           /\ outcome'.params = None
           /\ files' = files]_vars

\* a request without a method that POST would have written to a file
C2_Witness ==
    /\ MethodAbsent
    /\ HasRouted
    /\ IsSome(parsed.url)
    /\ IsSome(match_path(Unwrap(parsed.url), "/files/:file_name"))
    /\ IsSome(parsed.content_length)
    /\ Unwrap(parsed.content_length) > 0
    /\ Unwrap(parsed.content_length) <= Len(parsed.request[Len(parsed.request)])

\* C3 (as stated): once the handling of a parsed request has ended, exactly one
\* head has been handed to the socket and nothing before it: the router's head
\* when dispatch succeeded, the bare 500 head when it returned an error.
C3_ExactlyOneHead ==
    (parsed.ok /\ pc \in Ended) =>
        /\ Cardinality(HeadsWritten) = 1
        /\ socket[1].what = "head"
        /\ outcome.kind = "ok" => socket[1].bytes = outcome.head
        /\ outcome.kind = "err" =>
             socket[1].bytes = BareHead("500 Internal Server Error")

\* the route table as the claim lists it
TableOf(method) ==
    IF method = "GET"
    THEN <<<<"/", "handle_get_root">>, <<"/user-agent", "handle_get_user_agent">>,
           <<"/echo/:str", "handle_get_echo">>, <<"/files/:file_name", "handle_get_files">>>>
    ELSE <<<<"/files/:file_name", "handle_post_files">>>>

Accepting(method, url) ==
    {i \in 1..Len(TableOf(method)) : IsSome(match_path(url, TableOf(method)[i][1]))}

FirstAccepting(method, url) ==
    CHOOSE i \in Accepting(method, url) : \A j \in Accepting(method, url) : i <= j

Routable ==
    /\ parsed.ok
    /\ IsSome(parsed.method)
    /\ Unwrap(parsed.method) \in {"GET", "POST"}
    /\ IsSome(parsed.url)

\* C4: for a GET or POST request with a URL that some pattern of its table
\* accepts, the router step invokes the handler of the first accepting route,
\* passes it that match's parameters and yields exactly what the handler yields.
C4_FirstMatchingRouteHandles ==
    [][(pc = "route" /\ Routable
          /\ Accepting(Unwrap(parsed.method), Unwrap(parsed.url)) # {}) =>
          LET method == Unwrap(parsed.method)
              url == Unwrap(parsed.url)
              entry == TableOf(method)[FirstAccepting(method, url)]
              bound == match_path(url, entry[1])
          IN /\ outcome'.handler = Some(entry[2])
             /\ outcome'.params = bound
             /\ \E io \in IoOutcomes :
                  LET r == Call(entry[2], parsed, Unwrap(bound), files, io)
                  IN /\ outcome'.kind = r.kind
                     /\ outcome'.head = r.head
                     /\ outcome'.data = r.data
                     /\ files' = r.files]_vars

\* the third GET route took the request, with its dynamic segment bound
C4_Witness ==
    /\ Routable
    /\ HasRouted
    /\ outcome.handler = Some("handle_get_echo")
    /\ outcome.params = Some([str |-> "abc"])
    /\ outcome.kind = "ok"

\* the cases of C5: no pattern of the table accepts the path, there is no URL,
\* or the method is PUT, PATCH or DELETE
Unroutable ==
    /\ parsed.ok
    /\ IsSome(parsed.method)
    /\ \/ Unwrap(parsed.method) \in {"PUT", "PATCH", "DELETE"}
       \/ ~IsSome(parsed.url)
       \/ Accepting(Unwrap(parsed.method), Unwrap(parsed.url)) = {}

\* C5: in each unroutable case the router yields a success value holding the
\* bare 404 head and no raw payload, and invokes no handler.
C5_UnroutableIsNotFound ==
    (HasRouted /\ Unroutable) =>
        /\ outcome.kind = "ok"
        /\ outcome.head = BareHead("404 Not Found")
        /\ outcome.data = None
        /\ outcome.handler = None

\* a PUT on a path the POST table accepts
C5_Witness ==
    /\ HasRouted
    /\ parsed.ok
    /\ parsed.method = Some("PUT")
    /\ IsSome(parsed.url)
    /\ IsSome(match_path(Unwrap(parsed.url), "/files/:file_name"))
    /\ IsSome(parsed.content_length)

\* C9 (as stated): a GET request whose target path is / is answered with exactly
\* "HTTP/1.1 200 OK\r\n\r\n" and nothing else.
C9_RootAnsweredExactly ==
    (parsed.ok /\ parsed.method = Some("GET") /\ IsSome(parsed.url)
       /\ Unwrap(parsed.url).path = "/" /\ pc = "ok") =>
        /\ Len(socket) = 1
        /\ socket[1].what = "head"
        /\ socket[1].bytes = "HTTP/1.1 200 OK\r\n\r\n"

\* the third token of the request line: the version a client sends
SentVersion == Nth(Split(parsed.request[1], " "), 2)

\* C10 (as stated): the head opens with the version of the request line, and with
\* HTTP/1.1 only when the request line carries none.
C10_VersionEchoed ==
    (parsed.ok /\ pc = "ok") =>
        StartsWith(socket[1].bytes,
                   (IF IsSome(SentVersion) THEN Unwrap(SentVersion) ELSE "HTTP/1.1")
                     \o " ")

----------------------------------------------------------------------------
(* Url::match_path exercised alone, under SpecMatch *)

MaxPathSegs == 2

MaxPatternSegs == 2

SeqsUpTo(S, n) == UNION {[1..k -> S] : k \in 0..n}

RECURSIVE JoinWith(_, _)
JoinWith(segs, sep) ==
    IF segs = <<>> THEN ""
    ELSE IF Len(segs) = 1 THEN segs[1]
         ELSE segs[1] \o sep \o JoinWith(Tail(segs), sep)

PathInputs ==
    {lead \o JoinWith(segs, sep) \o trail :
        segs \in SeqsUpTo({"a", "b"}, MaxPathSegs),
        lead \in {"", "/"}, sep \in {"/", "//"}, trail \in {"", "/"}}

PatternInputs ==
    {lead \o JoinWith(segs, "/") \o trail :
        segs \in SeqsUpTo({"a", ":a", ":b", ":"}, MaxPatternSegs),
        lead \in {"", "/"}, trail \in {"", "/"}}
    \cup {Paths_as_str(p) : p \in {"Root", "UserAgent", "Echo", "Files"}}

Idle ==
    /\ pc = "idle"
    /\ raw = ""
    /\ parsed = NoRequest
    /\ outcome = NoOutcome
    /\ socket = <<>>
    /\ files = EmptyMap
    /\ served = 0
    /\ pool = ThreadPool_new(NumWorkers)

InitMatch ==
    /\ Idle
    /\ \E path \in PathInputs, pattern \in PatternInputs :
         probe = [fn |-> "match_path", path |-> path, pattern |-> pattern,
                  out |-> None, done |-> FALSE]

\* Url { path, query: None }.match_path(pattern)
ApplyMatchPath ==
    /\ probe.fn = "match_path"
    /\ ~probe.done
    /\ probe' = [probe EXCEPT
                   !.out = match_path([path |-> probe.path, query |-> None],
                                      probe.pattern),
                   !.done = TRUE]
    /\ UNCHANGED <<pc, raw, parsed, outcome, socket, files, served, pool>>

NextMatch == ApplyMatchPath

SpecMatch == InitMatch /\ [][NextMatch]_vars

\* the segments of s, read off its characters: a segment starts at a character
\* other than '/' that is first or follows a '/', and runs up to the next '/'
SegStarts(s) ==
    {i \in 1..Len(s) : CharAt(s, i) # "/" /\ (i = 1 \/ CharAt(s, i - 1) = "/")}

NumSegs(s) == Cardinality(SegStarts(s))

SegAt(s, k) ==
    LET i == CHOOSE x \in SegStarts(s) :
                 Cardinality({y \in SegStarts(s) : y < x}) = k - 1
        ends == {j \in i..Len(s) : j = Len(s) \/ CharAt(s, j + 1) = "/"}
        j == CHOOSE x \in ends : \A y \in ends : x <= y
    IN SubSeq(s, i, j)

IsDynamic(seg) == CharAt(seg, 1) = ":"

DynamicAt(pattern) == {k \in 1..NumSegs(pattern) : IsDynamic(SegAt(pattern, k))}

NameAt(pattern, k) == Drop(SegAt(pattern, k), 1)

\* C6: match_path returns a map exactly when path and pattern have the same
\* number of non-empty segments and every pattern segment that does not start
\* with ':' equals the path segment at its position; it has a result for every
\* path and pattern.
C6_MatchIffSegmentsAgree ==
    probe.done =>
        (IsSome(probe.out) <=>
            /\ NumSegs(probe.path) = NumSegs(probe.pattern)
            /\ \A k \in 1..NumSegs(probe.pattern) :
                 ~IsDynamic(SegAt(probe.pattern, k)) =>
                     SegAt(probe.pattern, k) = SegAt(probe.path, k))

\* a match through empty segments, with a literal and a dynamic segment
C6_Witness ==
    /\ probe.done
    /\ IsSome(probe.out)
    /\ Contains(probe.path, "//")
    /\ NumSegs(probe.pattern) = 2
    /\ Cardinality(DynamicAt(probe.pattern)) = 1

\* C7 (as stated): a successful match holds one entry per ':'-prefixed pattern
\* segment, keyed by the text after ':' and bound to the path segment at the
\* same position, and nothing else.
C7_OneEntryPerDynamicSegment ==
    (probe.done /\ IsSome(probe.out)) =>
        LET map == Unwrap(probe.out)
            dyn == DynamicAt(probe.pattern)
        IN /\ DOMAIN map = {NameAt(probe.pattern, k) : k \in dyn}
           /\ Cardinality(DOMAIN map) = Cardinality(dyn)
           /\ \A k \in dyn : map[NameAt(probe.pattern, k)] = SegAt(probe.path, k)

\* C7 (amended): the keys of a successful match are exactly the names of the
\* pattern's ':'-prefixed segments, and each name is bound to the path segment
\* at the position of the last pattern segment that carries it.
C7_LastDynamicSegmentBinds ==
    (probe.done /\ IsSome(probe.out)) =>
        LET map == Unwrap(probe.out)
            dyn == DynamicAt(probe.pattern)
        IN /\ DOMAIN map = {NameAt(probe.pattern, k) : k \in dyn}
           /\ \A k \in dyn :
                (\A j \in dyn : j > k =>
                     NameAt(probe.pattern, j) # NameAt(probe.pattern, k))
                => map[NameAt(probe.pattern, k)] = SegAt(probe.path, k)

\* a name carried by two dynamic segments, over two different path segments
C7_Witness ==
    /\ probe.done
    /\ IsSome(probe.out)
    /\ \E j, k \in DynamicAt(probe.pattern) :
         /\ j < k
         /\ NameAt(probe.pattern, j) = NameAt(probe.pattern, k)
         /\ SegAt(probe.path, j) # SegAt(probe.path, k)

----------------------------------------------------------------------------
(* Display for Response exercised alone, under SpecFormat *)

MaxHeaders == 2

HeaderInputs ==
    {ContentType("text/plain"), ContentType(""), ContentEncoding("gzip"),
     ContentLength(0), ContentLength(27)}

BodyInputs == {None, Some(""), Some("abc"), Some("a\r\n\r\nb")}

ResponseInputs ==
    {Response(HttpCodes[c], IF canonical THEN HttpCode_fmt(HttpCodes[c]) ELSE "Teapot",
              version, headers, body) :
        c \in DOMAIN HttpCodes,
        canonical \in BOOLEAN,
        version \in {"HTTP/1.1", "HTTP/1.0"},
        headers \in {None} \cup {Some(h) : h \in SeqsUpTo(HeaderInputs, MaxHeaders)},
        body \in BodyInputs}

InitFormat ==
    /\ Idle
    /\ \E response \in ResponseInputs :
         probe = [fn |-> "fmt", response |-> response, out |-> "", done |-> FALSE]

\* response.to_string()
ApplyFormat ==
    /\ probe.fn = "fmt"
    /\ ~probe.done
    /\ probe' = [probe EXCEPT !.out = Response_fmt(probe.response), !.done = TRUE]
    /\ UNCHANGED <<pc, raw, parsed, outcome, socket, files, served, pool>>

NextFormat == ApplyFormat

SpecFormat == InitFormat /\ [][NextFormat]_vars

\* the header line the claim asks for: 'Header-Name: value'
HeaderLine(h) ==
    IF h.tag = "ContentLength" THEN "Content-Length: " \o ToDec(h.len)
    ELSE (IF h.tag = "ContentType" THEN "Content-Type" ELSE "Content-Encoding")
           \o ": " \o h.text

\* C8: the formatted text ends with the body (with nothing when there is none),
\* and what precedes the body, split on CRLF, is the status line 'version code
\* reason', then one line per header in list order, then two empty pieces: the
\* single CRLF CRLF separator, present also without header list or body.
C8_FormatIsExact ==
    probe.done =>
        LET r == probe.response
            text == IF IsSome(r.body) THEN Unwrap(r.body) ELSE ""
            hs == IF IsSome(r.headers) THEN Unwrap(r.headers) ELSE <<>>
            n == Len(hs)
            cut == Len(probe.out) - Len(text)
            lines == Split(Take(probe.out, cut), CRLF)
        IN /\ cut >= 0
           /\ Drop(probe.out, cut) = text
           /\ Len(lines) = n + 3
           /\ lines[1] = r.http_version \o " " \o ToDec(to_u16(r.status_code))
                           \o " " \o r.status_text
           /\ \A i \in 1..n : lines[i + 1] = HeaderLine(hs[i])
           /\ lines[n + 2] = ""
           /\ lines[n + 3] = ""

\* two different headers, the second a Content-Length, and no body
C8_Witness ==
    /\ probe.done
    /\ IsSome(probe.response.headers)
    /\ Len(Unwrap(probe.response.headers)) = 2
    /\ Unwrap(probe.response.headers)[1].tag = "ContentEncoding"
    /\ Unwrap(probe.response.headers)[2].tag = "ContentLength"
    /\ ~IsSome(probe.response.body)

----------------------------------------------------------------------------
(* Properties of the handlers, under Spec *)

\* the lines of the request as sent, and its header lines: those after the
\* request line and before the first empty line
RawLines == Split(raw, CRLF)

HeaderEnd ==
    LET empties == {i \in 2..Len(RawLines) : RawLines[i] = ""}
    IN IF empties = {} THEN Len(RawLines) + 1
       ELSE CHOOSE i \in empties : \A j \in empties : i <= j

RawHeaders == SubSeq(RawLines, 2, HeaderEnd - 1)

\* the value of a header line 'name: value' of the request as sent
HeaderValues(name) ==
    {Drop(RawHeaders[i], Len(name) + 2) :
        i \in {j \in 1..Len(RawHeaders) : StartsWith(RawHeaders[j], name \o ": ")}}

\* a GET request whose path is /<first>/<second>
GetOfTwoSegments(first) ==
    /\ parsed.ok
    /\ parsed.method = Some("GET")
    /\ IsSome(parsed.url)
    /\ NumSegs(Unwrap(parsed.url).path) = 2
    /\ SegAt(Unwrap(parsed.url).path, 1) = first

SecondSegment == SegAt(Unwrap(parsed.url).path, 2)

\* a head in the request's version: status line, header lines, blank line, body
ExpectedHead(status, lines, body) ==
    parsed.http_version \o " " \o status \o CRLF \o JoinLines(lines) \o CRLF \o body

GzipAnswer(s) ==
    /\ outcome.kind = "ok"
    /\ outcome.head =
         ExpectedHead("200 OK",
                      <<"Content-Type: text/plain", "Content-Encoding: gzip",
                        "Content-Length: " \o ToDec(Len(Gzip(s)))>>, "")
    /\ outcome.data = Some(Gzip(s))

PlainAnswer(s) ==
    /\ outcome.kind = "ok"
    /\ outcome.head =
         ExpectedHead("200 OK",
                      <<"Content-Type: text/plain",
                        "Content-Length: " \o ToDec(Len(s))>>, s)
    /\ outcome.data = None

\* C11 (as stated): a GET /echo/s request that carries a header line
\* 'Accept-Encoding: v' with v containing 'gzip' is answered 200 with the headers
\* Content-Type: text/plain, Content-Encoding: gzip, Content-Length = length of
\* gzip(s), in that order, an empty textual body and the raw payload gzip(s).
C11_GzipHeaderLineCompresses ==
    (HasRouted /\ GetOfTwoSegments("echo")
       /\ \E v \in HeaderValues("Accept-Encoding") : Contains(v, "gzip"))
        => GzipAnswer(SecondSegment)

\* C11 (amended): a GET /echo/s request for which the parser stores an
\* Accept-Encoding value containing 'gzip' is answered 200 with the headers
\* Content-Type: text/plain, Content-Encoding: gzip, Content-Length = length of
\* gzip(s), in that order, an empty textual body and the raw payload gzip(s).
C11_StoredGzipCompresses ==
    (HasRouted /\ GetOfTwoSegments("echo")
       /\ IsSome(parsed.accept_encoding)
       /\ Contains(Unwrap(parsed.accept_encoding), "gzip"))
        => GzipAnswer(SecondSegment)

\* a compressed echo fully written, for a value that lists gzip among others
C11_Witness ==
    /\ GetOfTwoSegments("echo")
    /\ IsSome(parsed.accept_encoding)
    /\ Contains(Unwrap(parsed.accept_encoding), "gzip")
    /\ Unwrap(parsed.accept_encoding) # "gzip"
    /\ pc = "ok"
    /\ Len(socket) = 2
    /\ socket[2].bytes = Gzip(SecondSegment)

\* C12 (as stated): a GET /echo/s request with no Accept-Encoding header line,
\* or with Accept-Encoding header lines none of whose values contains 'gzip',
\* is answered 200 with Content-Type: text/plain and Content-Length = length
\* of s, no Content-Encoding header, the textual body s and no raw payload.
C12_NoGzipHeaderLineEchoesPlain ==
    (HasRouted /\ GetOfTwoSegments("echo")
       /\ \A v \in HeaderValues("Accept-Encoding") : ~Contains(v, "gzip"))
        => PlainAnswer(SecondSegment)

\* C12 (amended): a GET /echo/s request for which the parser stores no
\* Accept-Encoding value, or one that does not contain 'gzip', is answered 200
\* with Content-Type: text/plain and Content-Length = length of s, no
\* Content-Encoding header, the textual body s and no raw payload.
C12_StoredNoGzipEchoesPlain ==
    (HasRouted /\ GetOfTwoSegments("echo")
       /\ (IsSome(parsed.accept_encoding)
             => ~Contains(Unwrap(parsed.accept_encoding), "gzip")))
        => PlainAnswer(SecondSegment)

\* a plain echo fully written, for a stored value without gzip
C12_Witness ==
    /\ GetOfTwoSegments("echo")
    /\ IsSome(parsed.accept_encoding)
    /\ ~Contains(Unwrap(parsed.accept_encoding), "gzip")
    /\ pc = "ok"
    /\ Len(socket) = 1
    /\ outcome.data = None

\* the User-Agent value the parser stored, empty when it stored none
StoredUserAgent == IF IsSome(parsed.user_agent) THEN Unwrap(parsed.user_agent) ELSE ""

GetUserAgent ==
    /\ parsed.ok
    /\ parsed.method = Some("GET")
    /\ IsSome(parsed.url)
    /\ NumSegs(Unwrap(parsed.url).path) = 1
    /\ SegAt(Unwrap(parsed.url).path, 1) = "user-agent"

\* C13: a GET /user-agent request is answered 200 with Content-Type: text/plain,
\* Content-Length = length of the stored User-Agent value (0 when none is
\* stored) and that value as textual body (empty when none), with no raw
\* payload; it is never an error, with or without a User-Agent header.
C13_UserAgentEchoed ==
    (HasRouted /\ GetUserAgent) =>
        /\ outcome.kind = "ok"
        /\ outcome.head =
             ExpectedHead("200 OK",
                          <<"Content-Type: text/plain",
                            "Content-Length: " \o ToDec(Len(StoredUserAgent))>>,
                          StoredUserAgent)
        /\ outcome.data = None

\* a GET /user-agent without any User-Agent header, fully answered
C13_Witness ==
    /\ GetUserAgent
    /\ ~IsSome(parsed.user_agent)
    /\ pc = "ok"
    /\ Len(socket) = 1
    /\ Contains(socket[1].bytes, "Content-Length: 0")

\* the file a /files/<name> request names
NamedFile == Directory \o SecondSegment

\* C14: a GET /files/f request yields a success value in every case: 200 with
\* Content-Type: application/octet-stream, Content-Length = length of the file
\* and the file's contents as body when the read succeeds, and 404 with no
\* header and no body when the file is missing or the read fails.
C14_FileServedOrNotFound ==
    (HasRouted /\ GetOfTwoSegments("files")) =>
        /\ outcome.kind = "ok"
        /\ outcome.data = None
        /\ outcome.head =
             IF outcome.io = "ok" /\ NamedFile \in DOMAIN files
             THEN ExpectedHead("200 OK",
                               <<"Content-Type: application/octet-stream",
                                 "Content-Length: " \o ToDec(Len(files[NamedFile]))>>,
                               files[NamedFile])
             ELSE BareHead("404 Not Found")

\* a file that exists and whose read fails, answered 404
C14_Witness ==
    /\ GetOfTwoSegments("files")
    /\ HasRouted
    /\ NamedFile \in DOMAIN files
    /\ outcome.io = "err"
    /\ pc = "ok"
    /\ socket[1].bytes = BareHead("404 Not Found")

PostFiles ==
    /\ parsed.ok
    /\ parsed.method = Some("POST")
    /\ IsSome(parsed.url)
    /\ NumSegs(Unwrap(parsed.url).path) = 2
    /\ SegAt(Unwrap(parsed.url).path, 1) = "files"

\* the body of the request as sent: what follows the first blank line
SentBody ==
    LET i == IndexOf(raw, CRLF \o CRLF)
    IN IF i = 0 THEN "" ELSE Drop(raw, i + 3)

\* C15 (as stated): once a POST /files/f with Content-Length n and a body b of
\* at least n bytes has been answered 201 Created (no header, no body), file f
\* holds exactly the first n bytes of b; and a GET /files/f that reads f
\* returns 200 with the contents f holds as body and their length as
\* Content-Length.
C15_RoundTrip ==
    /\ (HasRouted /\ PostFiles /\ IsSome(parsed.content_length)
          /\ Unwrap(parsed.content_length) <= Len(SentBody)
          /\ outcome.kind = "ok" /\ outcome.head = BareHead("201 Created"))
         => /\ NamedFile \in DOMAIN files
            /\ files[NamedFile] = Take(SentBody, Unwrap(parsed.content_length))
    /\ (HasRouted /\ GetOfTwoSegments("files") /\ outcome.io = "ok"
          /\ NamedFile \in DOMAIN files)
         => outcome.head =
              ExpectedHead("200 OK",
                           <<"Content-Type: application/octet-stream",
                             "Content-Length: " \o ToDec(Len(files[NamedFile]))>>,
                           files[NamedFile])

\* C16 (as stated): for every parsed request with Content-Length present and
\* equal to n the last line is at least n bytes long, and the handling of a
\* request never unwinds on the Files-POST slice.
C16_LastLineCoversContentLength ==
    /\ pc # "panic"
    /\ (parsed.ok /\ IsSome(parsed.content_length))
         => Len(parsed.request[Len(parsed.request)]) >= Unwrap(parsed.content_length)

\* C17: the router step on a POST /files/f request without a stored
\* Content-Length leads to the bare 500 head with no payload and leaves every
\* file as it was; with Content-Length stored and the write attempted and
\* failed it leads to the bare 500 head with no payload too.
C17_PostWithoutLengthOrWriteFailureIs500 ==
    [][(pc = "route" /\ PostFiles) =>
          /\ ~IsSome(parsed.content_length) =>
                /\ Unwrapped(parsed, outcome') =
                     <<BareHead("500 Internal Server Error"), None>>
                /\ files' = files
          /\ (IsSome(parsed.content_length) /\ outcome'.kind # "panic"
                /\ outcome'.io # "ok") =>
                Unwrapped(parsed, outcome') =
                  <<BareHead("500 Internal Server Error"), None>>]_vars

\* a POST /files/f with a body and a Content-Length that does not parse,
\* answered 500, on a store where f does not exist
C17_Witness ==
    /\ PostFiles
    /\ ~IsSome(parsed.content_length)
    /\ SentBody # ""
    /\ pc = "ok"
    /\ socket[1].bytes = BareHead("500 Internal Server Error")
    /\ NamedFile \notin DOMAIN files

\* C18: when the bytes read are empty after trimming, Request::new fails and
\* the handling of the connection ends in an error with no byte written to the
\* socket and handle_route never called.
C18_EmptyRequestWritesNothing ==
    (pc \notin {"idle", "read"} /\ Trim(raw) = "") =>
        /\ ~parsed.ok
        /\ pc = "err"
        /\ socket = <<>>
        /\ outcome = NoOutcome

\* a request of whitespace only, read successfully and rejected
C18_Witness ==
    /\ raw # ""
    /\ Trim(raw) = ""
    /\ pc = "err"
    /\ socket = <<>>

----------------------------------------------------------------------------
(* Request::new exercised alone, under SpecParse *)

InitParse ==
    /\ Idle
    /\ \E bytes \in Inputs :
         probe = [fn |-> "Request_new", bytes |-> bytes, out |-> NoRequest,
                  done |-> FALSE]

\* Request::new(&mut stream) on a stream whose read returns the bytes
ApplyParse ==
    /\ probe.fn = "Request_new"
    /\ ~probe.done
    /\ probe' = [probe EXCEPT !.out = Request_new(probe.bytes, TRUE), !.done = TRUE]
    /\ UNCHANGED <<pc, raw, parsed, outcome, socket, files, served, pool>>

NextParse == ApplyParse

SpecParse == InitParse /\ [][NextParse]_vars

\* the request line as sent: the trimmed text up to its first CRLF
SentRequestLine ==
    LET text == Trim(probe.bytes)
        i == IndexOf(text, CRLF)
    IN IF i = 0 THEN text ELSE Take(text, i - 1)

\* its first token, and whether a space follows it
FirstToken ==
    LET i == IndexOf(SentRequestLine, " ")
    IN IF i = 0 THEN SentRequestLine ELSE Take(SentRequestLine, i - 1)

HasSecondToken == IndexOf(SentRequestLine, " ") # 0

\* C19: parsing a non-empty request succeeds whatever its request line is: the
\* method is stored exactly when the first token is GET, POST, PUT, PATCH or
\* DELETE in upper case, and is then that token; the URL is stored exactly when
\* a second token exists; a User-Agent value is stored exactly when some line
\* contains 'User-Agent:'; and the lines, joined by CRLF, are the trimmed text.
C19_RequestLineNeverFailsParsing ==
    (probe.done /\ Trim(probe.bytes) # "") =>
        /\ probe.out.ok
        /\ IsSome(probe.out.method)
             <=> FirstToken \in {"GET", "POST", "PUT", "PATCH", "DELETE"}
        /\ IsSome(probe.out.method) => Unwrap(probe.out.method) = FirstToken
        /\ IsSome(probe.out.url) <=> HasSecondToken
        /\ IsSome(probe.out.user_agent)
             <=> \E i \in 1..Len(probe.out.request) :
                    Contains(probe.out.request[i], "User-Agent:")
        /\ JoinWith(probe.out.request, CRLF) = Trim(probe.bytes)

\* an unknown method on a request whose URL and Content-Length are stored
C19_Witness ==
    /\ probe.done
    /\ probe.out.ok
    /\ ~IsSome(probe.out.method)
    /\ IsSome(probe.out.url)
    /\ IsSome(probe.out.content_length)
    /\ Len(probe.out.request) > 2

----------------------------------------------------------------------------
(* The accept loop of main and the worker pool, under SpecPool: every job is
   the handling of one connection, known by how that handling ends *)

MaxJobs == 6

InitPool ==
    /\ Idle
    /\ probe = NoProbe

\* pool.execute(job): the job is queued and execute returns
Execute ==
    /\ pool.submitted < MaxJobs
    /\ ~execute_blocks(pool)
    /\ pool' = [pool EXCEPT
                  !.queue = Append(@, pool.submitted + 1),
                  !.submitted = @ + 1,
                  !.ran = Append(@, 0)]
    /\ UNCHANGED <<pc, raw, parsed, outcome, socket, files, served, probe>>

\* a worker that reads the head of the queue and leaves it there
WorkerTake_LeavesJobQueued ==
    /\ pool.queue # <<>>
    /\ \E w \in DOMAIN pool.workers :
         /\ pool.workers[w].state = "idle"
         /\ pool' = [pool EXCEPT
                       !.workers[w].state = "running",
                       !.workers[w].job = Some(Head(pool.queue))]
    /\ UNCHANGED <<pc, raw, parsed, outcome, socket, files, served, probe>>

\* a waiting worker receives the job at the head of the queue
WorkerTake ==
    /\ pool.queue # <<>>
    /\ \E w \in DOMAIN pool.workers :
         /\ pool.workers[w].state = "idle"
         /\ pool' = [pool EXCEPT
                       !.queue = Tail(@),
                       !.workers[w].state = "running",
                       !.workers[w].job = Some(Head(pool.queue))]
    /\ UNCHANGED <<pc, raw, parsed, outcome, socket, files, served, probe>>

\* the worker runs its job to completion, in whichever way the handling of
\* the connection ends, and loops
WorkerRun ==
    /\ \E w \in DOMAIN pool.workers :
         /\ pool.workers[w].state = "running"
         /\ \E ending \in Ended :
              LET job == Unwrap(pool.workers[w].job)
                  result == JobClosure(ending)
              IN pool' = [pool EXCEPT
                            !.workers[w].state = AfterJob(result),
                            !.workers[w].job = None,
                            !.workers[w].logged =
                                IF result = "panicked" THEN @ + 1 ELSE @,
                            !.ran[job] = @ + 1]
    /\ UNCHANGED <<pc, raw, parsed, outcome, socket, files, served, probe>>

NextPool == Execute \/ WorkerTake \/ WorkerRun

SpecPool == InitPool /\ [][NextPool]_vars

\* the workers that are waiting for a job or running one
ServingWorkers == {w \in DOMAIN pool.workers : pool.workers[w].state \in {"idle", "running"}}

\* C20: whatever jobs have run, faulting ones included, the pool has all its
\* n workers, each waiting for a job or running one, and a worker that is not
\* running a job is waiting for the next.
C20_PanicLeavesAllWorkers ==
    /\ DOMAIN pool.workers = 1..NumWorkers
    /\ Cardinality(ServingWorkers) = NumWorkers
    /\ \A w \in DOMAIN pool.workers :
         pool.workers[w].job = None => pool.workers[w].state = "idle"

\* a worker that ran a job that unwound is running a later job
C20_Witness ==
    \E w \in DOMAIN pool.workers :
        /\ pool.workers[w].logged > 0
        /\ pool.workers[w].state = "running"

AllBusy == \A w \in DOMAIN pool.workers : pool.workers[w].state = "running"

\* C21: execute can be taken in every pool state (as long as the accept loop
\* has connections left to hand over), also when all n workers are running a
\* job and the queue holds jobs.
C21_ExecuteNeverBlocks ==
    pool.submitted < MaxJobs => ENABLED Execute

\* all workers busy, a job waiting in the queue, and one more to hand over
C21_Witness ==
    /\ AllBusy
    /\ pool.queue # <<>>
    /\ pool.submitted < MaxJobs

\* the worker loop is fair: a job that can be received is received, and a
\* running job ends
SpecPoolFair == SpecPool /\ WF_vars(WorkerTake) /\ WF_vars(WorkerRun)

\* the number of places job id is in: the queue, the hands of a worker
Queued(id) == Cardinality({i \in 1..Len(pool.queue) : pool.queue[i] = id})

Holders(id) == {w \in DOMAIN pool.workers : pool.workers[w].job = Some(id)}

\* C22: every job handed to execute is, at any time, waiting in the queue
\* once, or in the hands of exactly one worker, or has been run exactly once,
\* and never two of these; and, the worker loop being fair and running jobs
\* ending, there comes a time from which every job handed to execute has
\* been run.
C22_EachJobRunExactlyOnce ==
    /\ [](\A id \in 1..pool.submitted :
            /\ pool.ran[id] <= 1
            /\ Queued(id) + Cardinality(Holders(id)) + pool.ran[id] = 1)
    /\ <>[](\A id \in 1..pool.submitted : pool.ran[id] = 1)

\* more jobs than workers were handed over, and each has been run once
C22_Witness ==
    /\ pool.submitted > NumWorkers
    /\ \A id \in 1..pool.submitted : pool.ran[id] = 1

----------------------------------------------------------------------------
(* Writes on the socket of one connection, under Spec *)

\* C23: on the socket of a connection a raw payload is only ever the second
\* write, after a first write that handed over the whole head and succeeded;
\* every write but the last succeeded, so that nothing follows a failed write
\* (no retry, and no payload after a head that failed); the head and the
\* payload are each written at most once.
C23_PayloadOnlyAfterHead ==
    /\ Len(socket) <= 2
    /\ \A i \in 1..Len(socket) :
         /\ i < Len(socket) => socket[i].ok
         /\ socket[i].what = IF i = 1 THEN "head" ELSE "data"
    /\ socket # <<>> => socket[1].bytes = ResponseHead
    /\ Len(socket) = 2 => /\ socket[2].bytes = Unwrap(ResponseData)
                          /\ socket[2].what = "data"
    /\ (socket # <<>> /\ ~socket[Len(socket)].ok) => pc = "err"

\* the head of a compressed echo failed to be written: the payload is not sent
C23_Witness ==
    /\ Len(socket) = 1
    /\ ~socket[1].ok
    /\ pc = "err"
    /\ IsSome(outcome.data)

----------------------------------------------------------------------------
(* Header extraction, under SpecParse *)

\* the lines of the request in received order
ReceivedLines == Split(Trim(probe.bytes), CRLF)

\* the position of the first line that contains pat, 0 when there is none
FirstLineWith(pat) ==
    LET hits == {i \in 1..Len(ReceivedLines) : Contains(ReceivedLines[i], pat)}
    IN IF hits = {} THEN 0 ELSE CHOOSE i \in hits : \A j \in hits : i <= j

\* line i is 'name: value' with a value that does not repeat 'name: '
IsHeaderLine(i, name) ==
    /\ StartsWith(ReceivedLines[i], name \o ": ")
    /\ ~Contains(Drop(ReceivedLines[i], Len(name) + 2), name \o ": ")

ValueOfLine(i, name) == Drop(ReceivedLines[i], Len(name) + 2)

\* v is an unsigned decimal integer: digits, after an optional '+'
IsUnsigned(v) ==
    LET d == IF StartsWith(v, "+") THEN Drop(v, 1) ELSE v
    IN /\ Len(d) > 0
       /\ \A k \in 1..Len(d) :
            CharAt(d, k) \in {"0", "1", "2", "3", "4", "5", "6", "7", "8", "9"}

UnsignedOf(v) == DigitsValue(IF StartsWith(v, "+") THEN Drop(v, 1) ELSE v)

\* what is stored for a header found by the marker `pat`: nothing when no line
\* contains the marker, and the value of the first line that contains it when
\* that line is a header line of that name, whatever follows it
StoresFirst(stored, pat, name) ==
    LET i == FirstLineWith(pat)
    IN /\ i = 0 => stored = None
       /\ (i # 0 /\ IsHeaderLine(i, name)) => stored = Some(ValueOfLine(i, name))

\* C24: the stored User-Agent and Accept-Encoding values are those of the first
\* line, in received order, that matches the header name, later lines of the
\* same name being ignored; the stored Content-Length is that of the first line
\* containing 'Content-Length', and is absent when the value of that line is
\* not an unsigned integer, whatever later lines hold.
C24_FirstHeaderLineWins ==
    (probe.done /\ probe.out.ok) =>
        /\ StoresFirst(probe.out.user_agent, "User-Agent:", "User-Agent")
        /\ StoresFirst(probe.out.accept_encoding, "Accept-Encoding", "Accept-Encoding")
        /\ LET i == FirstLineWith("Content-Length")
           IN /\ i = 0 => probe.out.content_length = None
              /\ (i # 0 /\ IsHeaderLine(i, "Content-Length")) =>
                    probe.out.content_length =
                        IF IsUnsigned(ValueOfLine(i, "Content-Length"))
                        THEN Some(UnsignedOf(ValueOfLine(i, "Content-Length")))
                        ELSE None

\* a Content-Length that does not parse, followed by one that does: none stored
C24_Witness ==
    /\ probe.done
    /\ probe.out.ok
    /\ probe.out.content_length = None
    /\ \E i, j \in 1..Len(ReceivedLines) :
         /\ i = FirstLineWith("Content-Length")
         /\ i < j
         /\ IsHeaderLine(i, "Content-Length")
         /\ IsHeaderLine(j, "Content-Length")
         /\ IsUnsigned(ValueOfLine(j, "Content-Length"))

----------------------------------------------------------------------------
(* Url::new alone *)

MaxPieces == 2

QueryPieces == {"a=1", "a=2", "b=", "=x", "c", "a=1=2", "", "k=?v"}

UrlInputs ==
    {"/", "/search", ""}
    \cup {path \o "?" \o JoinWith(pieces, "&") :
            path \in {"/search", ""},
            pieces \in SeqsUpTo(QueryPieces, MaxPieces)}

InitUrl ==
    /\ Idle
    /\ \E url \in UrlInputs :
         probe = [fn |-> "Url_new", url |-> url,
                  out |-> [path |-> "", query |-> None], done |-> FALSE]

\* Url::new(url)
ApplyUrl ==
    /\ probe.fn = "Url_new"
    /\ ~probe.done
    /\ probe' = [probe EXCEPT !.out = Url_new(probe.url), !.done = TRUE]
    /\ UNCHANGED <<pc, raw, parsed, outcome, socket, files, served, pool>>

NextUrl == ApplyUrl

SpecUrl == InitUrl /\ [][NextUrl]_vars

\* the positions of '?' in the url
QuestionMarks == {k \in 1..Len(probe.url) : CharAt(probe.url, k) = "?"}

FirstQuestionMark == CHOOSE k \in QuestionMarks : \A j \in QuestionMarks : k <= j

\* the '&'-separated pieces of what follows the first '?'
PiecesSent == Split(Drop(probe.url, FirstQuestionMark), "&")

EqualSigns(piece) == {k \in 1..Len(piece) : CharAt(piece, k) = "="}

FirstEqualSign(piece) ==
    CHOOSE k \in EqualSigns(piece) : \A j \in EqualSigns(piece) : k <= j

KeyOf(piece) == Take(piece, FirstEqualSign(piece) - 1)

ValueOf(piece) == Drop(piece, FirstEqualSign(piece))

\* the pieces that have a '=' and a non-empty key before it
KeyedPieces ==
    {i \in 1..Len(PiecesSent) :
        EqualSigns(PiecesSent[i]) # {} /\ FirstEqualSign(PiecesSent[i]) > 1}

\* the last piece that carries the key
LastWith(key) ==
    CHOOSE i \in KeyedPieces :
        /\ KeyOf(PiecesSent[i]) = key
        /\ \A j \in KeyedPieces : KeyOf(PiecesSent[j]) = key => j <= i

\* C25: the path is the text before the first '?'; a url without '?' has no
\* query map; otherwise the map holds one entry per key of the '&'-separated
\* pieces that have a '=' and a non-empty key, the value being the text after
\* the first '=' (empty for 'k='), and a repeated key holds the value of its
\* last occurrence.
C25_QueryParsing ==
    probe.done =>
        IF QuestionMarks = {}
        THEN /\ probe.out.path = probe.url
             /\ probe.out.query = None
        ELSE /\ probe.out.path = Take(probe.url, FirstQuestionMark - 1)
             /\ IsSome(probe.out.query)
             /\ LET map == Unwrap(probe.out.query)
                IN /\ DOMAIN map = {KeyOf(PiecesSent[i]) : i \in KeyedPieces}
                   /\ \A key \in DOMAIN map :
                        map[key] = ValueOf(PiecesSent[LastWith(key)])

\* a key given twice with different values: the second value is the one held
C25_Witness ==
    /\ probe.done
    /\ QuestionMarks # {}
    /\ Len(PiecesSent) = 2
    /\ KeyedPieces = {1, 2}
    /\ KeyOf(PiecesSent[1]) = KeyOf(PiecesSent[2])
    /\ ValueOf(PiecesSent[1]) # ValueOf(PiecesSent[2])
    /\ Unwrap(probe.out.query)[KeyOf(PiecesSent[1])] = ValueOf(PiecesSent[2])

----------------------------------------------------------------------------
(* Files-POST requests handled at the same time by different workers.
   fs::write(path, body) is File::create(path)?.write_all(body): the file is
   opened write-only and truncated, then the body is written from offset 0 of
   the writer's own file description. Another writer may act between the two. *)

MaxWriters == 2

RaceInputs ==
    {RawRequest("POST /files/" \o name \o " HTTP/1.1", <<"Content-Length: " \o ToDec(Len(body))>>, body) :
        name \in {"f", "g"}, body \in {"hello", "hi"}}
    \cup {RawRequest("POST /files/f HTTP/1.1", <<>>, "hi")}

\* the workers that hold the racing jobs
Writers == 1..MaxWriters

\* the pool once job w has been handed to execute and taken by worker w
PoolRunning ==
    [ThreadPool_new(NumWorkers) EXCEPT
        !.submitted = MaxWriters,
        !.ran = [id \in Writers |-> 0],
        !.workers = [w \in DOMAIN @ |->
                        IF w \in Writers
                        THEN [state |-> "running", job |-> Some(w), logged |-> 0]
                        ELSE @[w]]]

\* the worker's loop after the job of worker w returned
JobReturned(p, w) ==
    [p EXCEPT !.workers[w] = [@ EXCEPT !.state = AfterJob(JobClosure("ok")),
                                       !.job = None],
              !.ran[w] = @ + 1]

InitRace ==
    /\ pc = "idle"
    /\ raw = ""
    /\ parsed = NoRequest
    /\ outcome = NoOutcome
    /\ socket = <<>>
    /\ served = 0
    /\ files \in InitialFiles
    /\ pool = PoolRunning
    /\ \E sent \in [Writers -> RaceInputs] :
         probe = [fn |-> "race",
                  jobs |-> [w \in Writers |->
                              [request |-> Request_new(sent[w], TRUE),
                               at |-> "route", head |-> ""]],
                  order |-> <<>>]

\* the arguments of the fs::write the handler of this request calls: a map
\* with the one path bound to the body, empty when fs::write is not reached
WriteOf(request) == handle_route(request, EmptyMap, "ok").files

PathOf(request) == CHOOSE path \in DOMAIN WriteOf(request) : TRUE

\* write_all(new) at offset 0 of a file that holds old
Overlay(old, new) ==
    new \o (IF Len(old) > Len(new) THEN Drop(old, Len(new)) ELSE "")

\* the head the connection handler sends for what handle_route returned
HeadOf(request, r) == IF r.kind = "panic" THEN "" ELSE Unwrapped(request, r)[1]

\* worker w routes its request up to File::create: a request that does not
\* reach fs::write is answered at once; otherwise the file is created or
\* truncated, or the open fails and the request is answered 500
RaceCreate ==
    /\ probe.fn = "race"
    /\ \E w \in Writers :
         LET job == probe.jobs[w]
             request == job.request
         IN /\ job.at = "route"
            /\ IF DOMAIN WriteOf(request) = {}
               THEN LET r == handle_route(request, files, "ok")
                    IN /\ files' = r.files
                       /\ probe' = [probe EXCEPT !.jobs[w].at = "done",
                                                 !.jobs[w].head = HeadOf(request, r)]
                       /\ pool' = JobReturned(pool, w)
               ELSE \E io \in {"ok", "err"} :
                      IF io = "ok"
                      THEN /\ files' = Insert(files, PathOf(request), "")
                           /\ probe' = [probe EXCEPT !.jobs[w].at = "created"]
                           /\ pool' = pool
                      ELSE LET r == handle_route(request, files, "err")
                           IN /\ files' = r.files
                              /\ probe' = [probe EXCEPT !.jobs[w].at = "done",
                                                        !.jobs[w].head = HeadOf(request, r)]
                              /\ pool' = JobReturned(pool, w)
    /\ UNCHANGED <<pc, raw, parsed, outcome, socket, served>>

\* worker w writes its body into the file it opened, and answers 201
RaceWrite ==
    /\ probe.fn = "race"
    /\ \E w \in Writers :
         LET job == probe.jobs[w]
             request == job.request
             path == PathOf(request)
         IN /\ job.at = "created"
            /\ files' = Insert(files, path, Overlay(files[path], WriteOf(request)[path]))
            /\ probe' = [probe EXCEPT
                            !.jobs[w].at = "done",
                            !.jobs[w].head =
                                HeadOf(request, handle_route(request, EmptyMap, "ok")),
                            !.order = Append(@, w)]
            /\ pool' = JobReturned(pool, w)
    /\ UNCHANGED <<pc, raw, parsed, outcome, socket, served>>

NextRace == RaceCreate \/ RaceWrite

SpecRace == InitRace /\ [][NextRace]_vars

\* the workers whose request wrote `path` and was answered 201 Created
Created201(path) ==
    {w \in Writers :
        /\ probe.jobs[w].at = "done"
        /\ probe.jobs[w].head = "HTTP/1.1 201 Created" \o CRLF \o CRLF
        /\ path \in DOMAIN WriteOf(probe.jobs[w].request)}

\* the one among them whose write_all happened last
LastWriter(path) ==
    CHOOSE i \in 1..Len(probe.order) :
        /\ probe.order[i] \in Created201(path)
        /\ \A j \in 1..Len(probe.order) : probe.order[j] \in Created201(path) => j <= i

RaceOver == \A w \in Writers : probe.jobs[w].at = "done"

\* C26 (as stated): when two or more Files-POST requests for the same file name
\* have been handled concurrently by different workers and each was answered
\* 201, the file holds exactly the body of the one whose write happened last,
\* never a mixture.
C26_LastWriterWins ==
    RaceOver =>
        \A path \in DOMAIN files :
            Cardinality(Created201(path)) >= 2 =>
                files[path] = WriteOf(probe.jobs[probe.order[LastWriter(path)]].request)[path]

----------------------------------------------------------------------------
(* The length announced by a response and the bytes that follow its head,
   under Spec *)

\* a response is handed to the socket: handle_route returned
Answered == HasRouted /\ outcome.kind # "panic"

\* where the blank line that ends the head's header block starts
HeadBlankLine == IndexOf(ResponseHead, CRLF \o CRLF)

\* the status line and the header lines of the response
ResponseLines == Split(Take(ResponseHead, HeadBlankLine - 1), CRLF)

\* the values of its Content-Length header lines
AnnouncedLengths ==
    {Drop(ResponseLines[i], Len("Content-Length: ")) :
        i \in {j \in 2..Len(ResponseLines) :
                    StartsWith(ResponseLines[j], "Content-Length: ")}}

\* the number of bytes sent after the blank line: the textual body and the
\* raw payload
BytesAfterHead ==
    Len(Drop(ResponseHead, HeadBlankLine + 3))
    + (IF IsSome(ResponseData) THEN Len(Unwrap(ResponseData)) ELSE 0)

\* the response has the given status code
HasStatus(code) == StartsWith(ResponseHead, parsed.http_version \o " " \o code \o " ")

\* the responses said to be bare: the 200 for /, the 201, every 404 and 500
SaidBare ==
    \/ outcome.handler = Some("handle_get_root")
    \/ HasStatus("201")
    \/ HasStatus("404")
    \/ HasStatus("500")

BareResponsesAreBare ==
    SaidBare =>
        /\ AnnouncedLengths = {}
        /\ BytesAfterHead = 0
        /\ ResponseData = None
        /\ ResponseLines = <<Take(ResponseHead, HeadBlankLine - 1)>>

\* C27 (as stated): a Content-Length header is present exactly when bytes
\* follow the head, and its value is their number; the 200 for /, the 201,
\* every 404 and every 500 have no Content-Length header, no body and no
\* payload.
C27_LengthPresentIffBytesFollow ==
    Answered =>
        /\ HeadBlankLine # 0
        /\ (AnnouncedLengths # {}) <=> (BytesAfterHead > 0)
        /\ AnnouncedLengths \subseteq {ToDec(BytesAfterHead)}
        /\ BareResponsesAreBare

\* C27: a Content-Length header is present whenever bytes follow the head,
\* and whenever it is present its value is the number of the bytes that follow,
\* which is 0 for an absent User-Agent and for an empty file; the 200 for /,
\* the 201, every 404 and every 500 have no Content-Length header, no body
\* and no payload.
C27_LengthCountsBytesThatFollow ==
    Answered =>
        /\ HeadBlankLine # 0
        /\ (BytesAfterHead > 0) => (AnnouncedLengths # {})
        /\ AnnouncedLengths \subseteq {ToDec(BytesAfterHead)}
        /\ BareResponsesAreBare

\* a 200 that announces 0 bytes and sends none
C27_Witness ==
    /\ Answered
    /\ HasStatus("200")
    /\ AnnouncedLengths = {"0"}
    /\ BytesAfterHead = 0

----------------------------------------------------------------------------
(* What a request may change in the file store, under Spec *)

\* every file but the named one is as it was
OthersUnchanged(name) ==
    \A path \in (DOMAIN files \cup DOMAIN files') \ {name} :
        /\ path \in DOMAIN files
        /\ path \in DOMAIN files'
        /\ files'[path] = files[path]

\* the router step ends in a response of the given status code
AnsweredWith(code) ==
    /\ outcome'.kind # "panic"
    /\ StartsWith(Unwrapped(parsed, outcome')[1], parsed.http_version \o " " \o code \o " ")

\* C28 (as stated): only a Files-POST request with Content-Length present
\* changes the file store, and it changes only the file named by its
\* :file_name segment; every GET request, every request answered 404 or 500,
\* every PUT/PATCH/DELETE request and every request that fails to parse leave
\* all files unchanged.
C28_OnlyFilesPostChangesStore ==
    [][/\ files' # files =>
            /\ pc = "route"
            /\ PostFiles
            /\ IsSome(parsed.content_length)
            /\ OthersUnchanged(NamedFile)
       /\ (pc = "route" /\ (AnsweredWith("404") \/ AnsweredWith("500"))) => files' = files
       /\ (pc = "route" /\ parsed.method \in {Some("GET"), Some("PUT"), Some("PATCH"),
                                                Some("DELETE")}) => files' = files
       /\ (pc = "read" /\ ~parsed'.ok) => files' = files]_vars

----------------------------------------------------------------------------
(* The parameters the handlers are invoked with, under Spec *)

\* the key each handler reads from its parameter map
RequiredKey(handler) ==
    CASE handler = "handle_get_echo" -> "str"
      [] handler \in FileHandlers -> "file_name"

KeyedHandlers == {"handle_get_echo"} \cup FileHandlers

\* C29: whenever handle_route invokes the echo handler or a files handler, the
\* parameter map it passes binds the required key ('str' or 'file_name') to a
\* non-empty segment of the path, and the handler does not fail for a missing
\* parameter; GET /echo, GET /echo/ and GET /files/ invoke no handler and are
\* answered 404.
C29_RequiredParameterBound ==
    HasRouted =>
        /\ (IsSome(outcome.handler) /\ Unwrap(outcome.handler) \in KeyedHandlers) =>
              LET key == RequiredKey(Unwrap(outcome.handler))
                  params == Unwrap(outcome.params)
                  path == Unwrap(parsed.url).path
              IN /\ key \in DOMAIN params
                 /\ params[key] # ""
                 /\ NumSegs(path) = 2
                 /\ params[key] = SegAt(path, 2)
                 /\ outcome.kind # "err"
        /\ (/\ parsed.method = Some("GET")
            /\ IsSome(parsed.url)
            /\ Unwrap(parsed.url).path \in {"/echo", "/echo/", "/files/"}) =>
              /\ outcome.handler = None
              /\ outcome.kind = "ok"
              /\ outcome.head = BareHead("404 Not Found")
              /\ outcome.data = None

\* GET /echo/ has been routed: no handler invoked, 404
C29_Witness ==
    /\ HasRouted
    /\ parsed.method = Some("GET")
    /\ IsSome(parsed.url)
    /\ Unwrap(parsed.url).path = "/echo/"
    /\ outcome.handler = None
    /\ outcome.head = BareHead("404 Not Found")

----------------------------------------------------------------------------
(* The order of the GET routes, under Spec *)

\* the GET table in every order
GetTables ==
    {[i \in 1..Len(GetRoutes) |-> GetRoutes[p[i]]] : p \in Permutations(1..Len(GetRoutes))}

\* the router step has just answered a GET request
RoutedGet ==
    /\ pc = "write_head"
    /\ parsed.method = Some("GET")
    /\ IsSome(parsed.url)

\* C30: the path of a GET request matches at most one of the patterns of the
\* four GET routes (/, /user-agent, /echo/:str and /files/:file_name), and
\* dispatching it over these routes listed in any order invokes the same handler with the same
\* parameters and yields the same response as the table of the code does.
C30_GetTableOrderIrrelevant ==
    RoutedGet =>
        LET url == Unwrap(parsed.url)
        IN /\ Cardinality({i \in 1..Len(GetRoutes) :
                              IsSome(match_path(url, GetRoutes[i].path))}) <= 1
           /\ \E io \in IoOutcomes :
                /\ outcome = OutcomeOf(Dispatch(GetRoutes, parsed, url, files, io), io)
                /\ \A table \in GetTables :
                     OutcomeOf(Dispatch(table, parsed, url, files, io), io) = outcome

\* a GET whose path joins the fixed segments of two patterns, handled by the
\* files handler
C30_Witness ==
    /\ RoutedGet
    /\ Unwrap(parsed.url).path = "/files/echo"
    /\ outcome.handler = Some("handle_get_files")
    /\ Unwrap(outcome.params) = Insert(EmptyMap, "file_name", "echo")

====
